---- MODULE Spec2Model ----
(***************************************************************************)
(* Model of the bitstream crate of the H.264 decoder:                      *)
(*   bitreader.rs  BitReader: read, peek, rewind, position, read_ue,       *)
(*                 read_se, advance                                        *)
(*   avcc.rs       read_avcc_stream, AVCHeader::new, AVCHeader::parse_nalus*)
(*                                                                         *)
(* A byte buffer &[u8] is a sequence of numbers 0..255; Rust's data[i] is  *)
(* data[i + 1] here.  A u32 is a pair <<hi, lo>> of 16-bit halves (its     *)
(* value is hi * 65536 + lo), because the model checker's integers are     *)
(* signed 32-bit.  A call ends in one of three ways: Ok, Err (an anyhow    *)
(* error, identified by its message) or Panic (a slice index out of range, *)
(* unreachable!(), or an arithmetic overflow in a build that checks it).   *)
(***************************************************************************)
EXTENDS Integers, Sequences, FiniteSets, TLC

VARIABLES
    byte_buf,     \* BitReader.byte_buf
    byte_index,   \* BitReader.byte_index
    bit_offset,   \* BitReader.bit_offset
    call,         \* the last call made on the reader: its name, argument, position() before it
    ret,          \* what that call returned
    input,        \* the buffer handed to read_avcc_stream or AVCHeader::new
    nalu_length_size,   \* the second argument of read_avcc_stream
    units,        \* the NAL units build_avcc_stream was given, when it built data
    out,          \* what read_avcc_stream or AVCHeader::new returned
    pc            \* where the caller of the extractors is: "units", "ready", "done"

cursorVars == <<byte_buf, byte_index, bit_offset, call, ret>>

extractVars == <<input, nalu_length_size, units, out, pc>>

vars == <<byte_buf, byte_index, bit_offset, call, ret,
          input, nalu_length_size, units, out, pc>>

----------------------------------------------------------------------------
(* Bounds of the model *)

\* Longest buffer of the bit cursor's specification Spec, in bytes.
MaxLen == 5

\* The buffers of Spec are the prefixes of these byte strings
\* (A6 40 is the buffer of test_read_ue_concatenated; no two bytes are equal).
Patterns == { <<166, 64, 31, 255, 0, 128, 1, 126>>,
              <<22, 195, 11, 0, 250, 53, 255, 8>> }

\* The buffers of SpecGolomb are at most MaxZeroBytes bytes 00 followed by at most
\* MaxTail bytes drawn from GolombVals (A6 = 1010 0110, FF).
MaxZeroBytes == 4

MaxTail == 4

GolombVals == {166, 255}

----------------------------------------------------------------------------
(* u32 arithmetic on <<hi, lo>> pairs *)

\* Width of the u32 that read and peek return.
U32Bits == 32

Pow2Tab == <<1, 2, 4, 8, 16, 32, 64, 128, 256, 512, 1024, 2048, 4096, 8192,
             16384, 32768, 65536>>

Pow2(k) == Pow2Tab[k + 1]

U32Zero == <<0, 0>>

U32One == <<0, 1>>

\* x | (1 << j) for 0 <= j <= 31
OrBit(x, j) ==
    IF j < 16
    THEN IF (x[2] \div Pow2(j)) % 2 = 1 THEN x ELSE <<x[1], x[2] + Pow2(j)>>
    ELSE IF (x[1] \div Pow2(j - 16)) % 2 = 1 THEN x ELSE <<x[1] + Pow2(j - 16), x[2]>>

\* x | ((b as u32) << s) for a byte b and 0 <= s <= 24, one bit of b at a time
RECURSIVE OrShlFrom(_, _, _, _)
OrShlFrom(x, b, s, i) ==
    IF i > 7 THEN x
    ELSE OrShlFrom(IF (b \div Pow2(i)) % 2 = 1 THEN OrBit(x, s + i) ELSE x, b, s, i + 1)

OrShl(x, b, s) == OrShlFrom(x, b, s, 0)

----------------------------------------------------------------------------
(* Results *)

Ok(v) == [tag |-> "Ok", val |-> v, sval |-> 0, err |-> ""]

OkSigned(i) == [tag |-> "Ok", val |-> U32Zero, sval |-> i, err |-> ""]

Err(msg) == [tag |-> "Err", val |-> U32Zero, sval |-> 0, err |-> msg]

Panic == [tag |-> "Panic", val |-> U32Zero, sval |-> 0, err |-> ""]

\* The messages of bitreader.rs
ErrNoSpace == "Not enough space to read!"

ErrAdvance == "Not enough bits to advance!"

ErrRewind == "Too many bits to rewind backwards"

ErrGolomb == "Too many leading zeros in Exp-Golomb"

----------------------------------------------------------------------------
(* BitReader *)

BitReader(buf, bi, bo) == [byte_buf |-> buf, byte_index |-> bi, bit_offset |-> bo]

from_bytes(data) == BitReader(data, 0, 7)

position(self) == self.byte_index * 8 + (7 - self.bit_offset)

Min(a, b) == IF a < b THEN a ELSE b

\* PeekBits with the bits stored least significant first: bit << bits_read
RECURSIVE PeekBitsLsbFirst(_, _, _, _, _, _, _)
PeekBitsLsbFirst(cur_byte, n, left, bi, bo, read_out, bits_read) ==
    IF left = 0
    THEN [byte_index |-> bi, bit_offset |-> bo, read_out |-> read_out, bits_read |-> bits_read]
    ELSE LET bit == (cur_byte \div Pow2(bo)) % 2
             next_out == IF bit = 1 THEN OrBit(read_out, bits_read) ELSE read_out
         IN IF bo = 0
            THEN [byte_index |-> bi + 1, bit_offset |-> 7, read_out |-> next_out,
                  bits_read |-> bits_read + 1]
            ELSE PeekBitsLsbFirst(cur_byte, n, left - 1, bi, bo - 1, next_out,
                                  bits_read + 1)

\* The for loop of peek (lines 49-61) over one byte cur_byte; left is the number of
\* iterations the range still holds.  Returns the loop's locals.
RECURSIVE PeekBits(_, _, _, _, _, _, _)
PeekBits(cur_byte, n, left, bi, bo, read_out, bits_read) ==
    IF left = 0
    THEN [byte_index |-> bi, bit_offset |-> bo, read_out |-> read_out, bits_read |-> bits_read]
    ELSE LET bit == (cur_byte \div Pow2(bo)) % 2
             next_out == IF bit = 1 THEN OrBit(read_out, n - bits_read - 1) ELSE read_out
         IN IF bo = 0
            THEN [byte_index |-> bi + 1, bit_offset |-> 7, read_out |-> next_out,
                  bits_read |-> bits_read + 1]
            ELSE PeekBits(cur_byte, n, left - 1, bi, bo - 1, next_out, bits_read + 1)

\* The while loop of peek (lines 42-63).  PeekLoopFrom continues it with the locals s
\* the for loop left.
RECURSIVE PeekLoop(_, _, _, _, _, _)
PeekLoopFrom(buf, n, s) ==
    PeekLoop(buf, n, s.byte_index, s.bit_offset, s.read_out, s.bits_read)

PeekLoop(buf, n, bi, bo, read_out, bits_read) ==
    IF ~(bits_read < n) THEN Ok(read_out)
    ELSE IF bi >= Len(buf) THEN Panic      \* self.byte_buf[byte_index] out of range
    ELSE IF bo = 7 /\ bits_read + 8 <= n
    THEN PeekLoop(buf, n, bi + 1, bo,
                  OrShl(read_out, buf[bi + 1], n - bits_read - 8), bits_read + 8)
    ELSE PeekLoopFrom(buf, n, PeekBits(buf[bi + 1], n, Min(n - bits_read, bo + 1), bi, bo,
                                       read_out, bits_read))

\* bits_remaining of peek (line 37)
PeekBitsRemaining(self) ==
    (Len(self.byte_buf) - self.byte_index) * 8 + (7 - self.bit_offset)

peek(self, n) ==
    IF PeekBitsRemaining(self) < n THEN Err(ErrNoSpace)
    ELSE PeekLoop(self.byte_buf, n, self.byte_index, self.bit_offset, U32Zero, 0)

\* advance with the bit offset stored unflipped: new_global_bit_index % 8
advance_offset_not_flipped(self, n) ==
    LET total_bits == Len(self.byte_buf) * 8
        global_bit_index == self.byte_index * 8 + (7 - self.bit_offset)
        new_global_bit_index == global_bit_index + n
    IN IF global_bit_index + n > total_bits
       THEN [ret |-> Err(ErrAdvance), self |-> self]
       ELSE [ret |-> Ok(U32Zero),
             self |-> BitReader(self.byte_buf, new_global_bit_index \div 8,
                                new_global_bit_index % 8)]

\* advance: [ret, self]
advance(self, n) ==
    LET total_bits == Len(self.byte_buf) * 8
        global_bit_index == self.byte_index * 8 + (7 - self.bit_offset)
        new_global_bit_index == global_bit_index + n
    IN IF global_bit_index + n > total_bits
       THEN [ret |-> Err(ErrAdvance), self |-> self]
       ELSE [ret |-> Ok(U32Zero),
             self |-> BitReader(self.byte_buf, new_global_bit_index \div 8,
                                7 - (new_global_bit_index % 8))]

\* The ? operator: an error (or a panic) of the call r ends the caller with it
Failed(r) == r.ret.tag # "Ok"

\* read that moves the cursor before it looks: advance(n), then peek(n)
ReadAdvanceFirst(self, n, a) ==
    IF Failed(a) THEN a ELSE [ret |-> peek(a.self, n), self |-> a.self]

read_advance_first(self, n) == ReadAdvanceFirst(self, n, advance(self, n))

\* read, line 25 on: val is what peek returned
ReadAdvance(val, a) ==
    IF Failed(a) THEN a ELSE [ret |-> val, self |-> a.self]

\* read, line 24 on: val is what peek returned
ReadPeeked(self, n, val) ==
    IF val.tag # "Ok" THEN [ret |-> val, self |-> self]
    ELSE ReadAdvance(val, advance(self, n))

\* read: [ret, self]
read(self, n) == ReadPeeked(self, n, peek(self, n))

\* The guard of rewind (line 71) with <= for <
RewindTooFarOffByOne(prior_bits, n) == prior_bits <= n

\* The guard of rewind (line 71)
RewindTooFar(prior_bits, n) == prior_bits < n

\* rewind with the byte index rounded up: (new_global_index + 7) / 8
rewind_byte_index_rounded_up(self, n) ==
    LET prior_bits == self.byte_index * 8 + (7 - self.bit_offset)
        new_global_index == prior_bits - n
    IN IF RewindTooFar(prior_bits, n)
       THEN [ret |-> Err(ErrRewind), self |-> self]
       ELSE [ret |-> Ok(U32Zero),
             self |-> BitReader(self.byte_buf, (new_global_index + 7) \div 8,
                                7 - (new_global_index % 8))]

\* rewind: [ret, self]
rewind(self, n) ==
    LET prior_bits == self.byte_index * 8 + (7 - self.bit_offset)
        new_global_index == prior_bits - n
    IN IF RewindTooFar(prior_bits, n)
       THEN [ret |-> Err(ErrRewind), self |-> self]
       ELSE [ret |-> Ok(U32Zero),
             self |-> BitReader(self.byte_buf, new_global_index \div 8,
                                7 - (new_global_index % 8))]

\* 1u32 << k: a shift by 32 or more overflows; a build that checks overflow panics,
\* another masks the shift amount to its low five bits.
U32Shl1(k) ==
    [overflow |-> k >= 32,
     val |-> IF k % 32 < 16 THEN <<0, Pow2(k % 32)>> ELSE <<Pow2((k % 32) - 16), 0>>]

\* x - 1 in u32
U32Sub1(x) ==
    [overflow |-> x = U32Zero,
     val |-> IF x = U32Zero THEN <<65535, 65535>>
             ELSE IF x[2] = 0 THEN <<x[1] - 1, 65535>> ELSE <<x[1], x[2] - 1>>]

\* a + b in u32
U32Add(a, b) ==
    [overflow |-> a[1] + b[1] + ((a[2] + b[2]) \div 65536) >= 65536,
     val |-> <<(a[1] + b[1] + ((a[2] + b[2]) \div 65536)) % 65536,
               (a[2] + b[2]) % 65536>>]

\* x / 2 in u32
U32Half(x) == <<x[1] \div 2, (x[1] % 2) * 32768 + (x[2] \div 2)>>

\* x as i32: the same 32 bits, read as two's complement
AsI32(x) ==
    IF x[1] >= 32768 THEN (x[1] - 65536) * 65536 + x[2] ELSE x[1] * 65536 + x[2]

\* A u32 result v, in a build that panics on the overflow ovf or in one that wraps
Checked(overflow_checks, ovf, v, self) ==
    IF overflow_checks /\ ovf THEN [ret |-> Panic, self |-> self]
    ELSE [ret |-> Ok(v), self |-> self]

\* The cap on leading_zero_bits in read_ue.
MaxLeadingZeros == 31

RECURSIVE ReadUeZeros(_, _)

\* ReadUeZerosStep with the cap tested by >= instead of >
ReadUeZerosStepCapOffByOne(r, leading_zero_bits) ==
    IF Failed(r)
    THEN [ret |-> r.ret, self |-> r.self, leading_zero_bits |-> leading_zero_bits]
    ELSE IF r.ret.val = U32Zero
    THEN IF leading_zero_bits + 1 >= MaxLeadingZeros
         THEN [ret |-> Err(ErrGolomb), self |-> r.self,
               leading_zero_bits |-> leading_zero_bits + 1]
         ELSE ReadUeZeros(r.self, leading_zero_bits + 1)
    ELSE [ret |-> r.ret, self |-> r.self, leading_zero_bits |-> leading_zero_bits]

\* One turn of the while loop of read_ue (lines 92-97); r is what self.read(1) returned
ReadUeZerosStep(r, leading_zero_bits) ==
    IF Failed(r)
    THEN [ret |-> r.ret, self |-> r.self, leading_zero_bits |-> leading_zero_bits]
    ELSE IF r.ret.val = U32Zero
    THEN IF leading_zero_bits + 1 > MaxLeadingZeros
         THEN [ret |-> Err(ErrGolomb), self |-> r.self,
               leading_zero_bits |-> leading_zero_bits + 1]
         ELSE ReadUeZeros(r.self, leading_zero_bits + 1)
    ELSE [ret |-> r.ret, self |-> r.self, leading_zero_bits |-> leading_zero_bits]

\* The while loop of read_ue (lines 92-97): [ret, self, leading_zero_bits]; ret is Ok
\* when the loop ended on a 1 bit.
ReadUeZeros(self, leading_zero_bits) ==
    ReadUeZerosStep(read(self, 1), leading_zero_bits)

\* ReadUeValue without the - 1: (1 << leading_zero_bits) + suffix
ReadUeValueNoMinusOne(leading_zero_bits, suffix, overflow_checks) ==
    IF Failed(suffix) THEN suffix
    ELSE Checked(overflow_checks,
                 U32Shl1(leading_zero_bits).overflow
                    \/ U32Add(U32Shl1(leading_zero_bits).val, suffix.ret.val).overflow,
                 U32Add(U32Shl1(leading_zero_bits).val, suffix.ret.val).val,
                 suffix.self)

\* read_ue, lines 104-105; suffix is what self.read(leading_zero_bits) returned
ReadUeValue(leading_zero_bits, suffix, overflow_checks) ==
    IF Failed(suffix) THEN suffix
    ELSE LET a == U32Shl1(leading_zero_bits)
             b == U32Sub1(a.val)
             c == U32Add(b.val, suffix.ret.val)
         IN Checked(overflow_checks, a.overflow \/ b.overflow \/ c.overflow, c.val,
                    suffix.self)

\* read_ue, lines 99-105; z is what the while loop left
ReadUeSuffix(z, overflow_checks) ==
    IF Failed(z) THEN [ret |-> z.ret, self |-> z.self]
    ELSE IF z.leading_zero_bits = 0 THEN [ret |-> Ok(U32Zero), self |-> z.self]
    ELSE ReadUeValue(z.leading_zero_bits, read(z.self, z.leading_zero_bits),
                     overflow_checks)

\* read_ue: [ret, self].  overflow_checks: whether the build panics on arithmetic
\* overflow (debug) or wraps (release).
read_ue(self, overflow_checks) == ReadUeSuffix(ReadUeZeros(self, 0), overflow_checks)

\* ReadSeSigned with the cast before the division: -((ue_val as i32) / 2)
ReadSeSignedCastFirst(u, overflow_checks) ==
    IF Failed(u) THEN u
    ELSE IF u.ret.val[2] % 2 = 0
    THEN [ret |-> OkSigned(-(AsI32(u.ret.val) \div 2)), self |-> u.self]
    ELSE IF overflow_checks /\ U32Add(u.ret.val, U32One).overflow
    THEN [ret |-> Panic, self |-> u.self]
    ELSE [ret |-> OkSigned(AsI32(U32Half(U32Add(u.ret.val, U32One).val))), self |-> u.self]

\* read_se, lines 111-116; u is what self.read_ue() returned
ReadSeSigned(u, overflow_checks) ==
    IF Failed(u) THEN u
    ELSE IF u.ret.val[2] % 2 = 0
    THEN IF AsI32(U32Half(u.ret.val)) = -2147483647 - 1      \* -i32::MIN overflows
         THEN [ret |-> IF overflow_checks THEN Panic
                       ELSE OkSigned(AsI32(U32Half(u.ret.val))),
               self |-> u.self]
         ELSE [ret |-> OkSigned(-AsI32(U32Half(u.ret.val))), self |-> u.self]
    ELSE IF overflow_checks /\ U32Add(u.ret.val, U32One).overflow
    THEN [ret |-> Panic, self |-> u.self]
    ELSE [ret |-> OkSigned(AsI32(U32Half(U32Add(u.ret.val, U32One).val))), self |-> u.self]

\* read_se: [ret, self]
read_se(self, overflow_checks) == ReadSeSigned(read_ue(self, overflow_checks), overflow_checks)

----------------------------------------------------------------------------
(* The bit cursor as a state machine: one action per public method *)

Self == BitReader(byte_buf, byte_index, bit_offset)

\* A panic unwinds the caller: no further call is made on the reader.
Alive == ret.tag # "Panic"

Called(op, n) == [op |-> op, n |-> n, at |-> position(Self)]

Becomes(self) ==
    /\ byte_buf' = self.byte_buf
    /\ byte_index' = self.byte_index
    /\ bit_offset' = self.bit_offset

\* The call r = [ret, self] returns: the reader is as the call left it
Returns(r) == Becomes(r.self) /\ ret' = r.ret

\* The prefixes of at most len bytes of the byte strings of pats
Prefixes(pats, len) ==
    UNION {{SubSeq(p, 1, l) : l \in {k \in 0..len : k <= Len(p)}} : p \in pats}

\* All byte strings of at most len bytes over the byte values vals
Strings(vals, len) == UNION {[1..l -> vals] : l \in 0..len}

Zeros(z) == [i \in 1..z |-> 0]

GolombBuffers(zeros, tail) ==
    {Zeros(z) \o t : z \in 0..zeros, t \in Strings(GolombVals, tail)}

\* No extractor call is in progress.
NoOut == [tag |-> "None"]

ExtractIdle ==
    /\ input = <<>>
    /\ nalu_length_size = 0
    /\ units = <<>>
    /\ out = NoOut
    /\ pc = "cursor"

InitOn(bufs) ==
    /\ ExtractIdle
    /\ byte_buf \in bufs
    /\ byte_index = from_bytes(byte_buf).byte_index
    /\ bit_offset = from_bytes(byte_buf).bit_offset
    /\ call = [op |-> "from_bytes", n |-> 0, at |-> 0]
    /\ ret = Ok(U32Zero)

Init == InitOn(Prefixes(Patterns, MaxLen))

GolombInit == InitOn(GolombBuffers(MaxZeroBytes, MaxTail))

Read(n) ==
    /\ Alive
    /\ UNCHANGED extractVars
    /\ Returns(read(Self, n))
    /\ call' = Called("read", n)

Peek(n) ==
    /\ Alive
    /\ UNCHANGED extractVars
    /\ ret' = peek(Self, n)
    /\ call' = Called("peek", n)
    /\ UNCHANGED <<byte_buf, byte_index, bit_offset>>

Rewind(n) ==
    /\ Alive
    /\ UNCHANGED extractVars
    /\ Returns(rewind(Self, n))
    /\ call' = Called("rewind", n)

ReadUe ==
    /\ Alive
    /\ UNCHANGED extractVars
    /\ \E overflow_checks \in BOOLEAN : Returns(read_ue(Self, overflow_checks))
    /\ call' = Called("read_ue", 0)

ReadSe ==
    /\ Alive
    /\ UNCHANGED extractVars
    /\ \E overflow_checks \in BOOLEAN : Returns(read_se(Self, overflow_checks))
    /\ call' = Called("read_se", 0)

Next ==
    \/ \E n \in 0..U32Bits : Read(n)
    \/ \E n \in 0..U32Bits : Peek(n)
    \/ \E n \in 0..U32Bits : Rewind(n)
    \/ ReadUe
    \/ ReadSe

Spec == Init /\ [][Next]_vars

\* Exp-Golomb decoding over longer buffers: the cursor is moved one bit at a time
\* to reach every start position.
GolombNext ==
    \/ Read(1)
    \/ ReadUe
    \/ ReadSe

SpecGolomb == GolombInit /\ [][GolombNext]_vars

\* A caller that saves and restores its place, as test_rewind_functionality does:
\* reads that bring the cursor somewhere, then read(n), rewind(n), read(n).  out keeps
\* what the first read(n) was asked and what it returned.
Seek(n) == pc = "cursor" /\ Read(n)

FirstRead(n) ==
    /\ pc = "cursor"
    /\ Alive
    /\ Returns(read(Self, n))
    /\ call' = Called("read", n)
    /\ out' = [tag |-> "Read", n |-> n, at |-> position(Self), ret |-> ret']
    /\ pc' = "read"
    /\ UNCHANGED <<input, nalu_length_size, units>>

RewindBack ==
    /\ pc = "read"
    /\ ret.tag = "Ok"
    /\ Returns(rewind(Self, out.n))
    /\ call' = Called("rewind", out.n)
    /\ pc' = "rewound"
    /\ UNCHANGED <<input, nalu_length_size, units, out>>

ReadAgain ==
    /\ pc = "rewound"
    /\ ret.tag = "Ok"
    /\ Returns(read(Self, out.n))
    /\ call' = Called("read", out.n)
    /\ pc' = "reread"
    /\ UNCHANGED <<input, nalu_length_size, units, out>>

RewindNext ==
    \/ \E n \in 0..U32Bits : Seek(n)
    \/ \E n \in 0..U32Bits : FirstRead(n)
    \/ RewindBack
    \/ ReadAgain

SpecRewind == Init /\ [][RewindNext]_vars

----------------------------------------------------------------------------
(* avcc.rs: read_avcc_stream *)

ErrLengthSize == "Invalid NALU length size"

ErrNaluExceeds == "NALU length exceeds available data"

StreamOk(nalus) == [tag |-> "Ok", nalus |-> nalus, err |-> ""]

StreamErr(msg) == [tag |-> "Err", nalus |-> <<>>, err |-> msg]

StreamPanic == [tag |-> "Panic", nalus |-> <<>>, err |-> ""]

\* The slice d[a..b] of Rust
Slice(d, a, b) == SubSeq(d, a + 1, b)

\* The match of read_avcc_stream (lines 107-116) at index i: the length it decodes,
\* or a panic where it indexes past the buffer or reaches unreachable!().
AmountToRead(d, i, size) ==
    CASE size = 1 -> [panic |-> FALSE, val |-> d[i + 1]]
      [] size = 2 -> IF i + 1 >= Len(d) THEN [panic |-> TRUE, val |-> 0]
                     ELSE [panic |-> FALSE, val |-> d[i + 1] * 256 + d[i + 2]]
      [] size = 3 -> IF i + 2 >= Len(d) THEN [panic |-> TRUE, val |-> 0]
                     ELSE [panic |-> FALSE,
                           val |-> d[i + 3] * 65536 + d[i + 2] * 256 + d[i + 1]]
      [] size = 4 -> IF i + 3 >= Len(d) THEN [panic |-> TRUE, val |-> 0]
                     ELSE [panic |-> FALSE,
                           val |-> d[i + 1] * 16777216 + d[i + 2] * 65536
                                   + d[i + 3] * 256 + d[i + 4]]
      [] OTHER -> [panic |-> TRUE, val |-> 0]

\* The while loop of read_avcc_stream (lines 106-125)
RECURSIVE ReadAvccLoop(_, _, _, _)
ReadAvccLoop(d, size, i, nalus) ==
    IF ~(i < Len(d)) THEN StreamOk(nalus)
    ELSE LET amount_to_read == AmountToRead(d, i, size)
             j == i + size
         IN IF amount_to_read.panic THEN StreamPanic
            ELSE IF j + amount_to_read.val > Len(d) THEN StreamErr(ErrNaluExceeds)
            ELSE ReadAvccLoop(d, size, j + amount_to_read.val,
                              Append(nalus, Slice(d, j, j + amount_to_read.val)))

read_avcc_stream(d, size) ==
    IF ~(size \in 0..3) THEN StreamErr(ErrLengthSize)
    ELSE ReadAvccLoop(d, size, 0, <<>>)

\* The length field build_avcc_stream (the tests' helper) writes before a unit
LengthField(size, length) ==
    CASE size = 1 -> <<length % 256>>
      [] size = 2 -> <<(length \div 256) % 256, length % 256>>
      [] size = 3 -> <<(length \div 65536) % 256, (length \div 256) % 256, length % 256>>
      [] size = 4 -> <<(length \div 16777216) % 256, (length \div 65536) % 256,
                       (length \div 256) % 256, length % 256>>

RECURSIVE build_avcc_stream(_, _)
build_avcc_stream(size, nalus) ==
    IF nalus = <<>> THEN <<>>
    ELSE LengthField(size, Len(Head(nalus))) \o Head(nalus)
         \o build_avcc_stream(size, Tail(nalus))

----------------------------------------------------------------------------
(* avcc.rs: AVCHeader *)

ErrMinSize == "AVCC header is below minimum size"

ErrVersion == "Incorrect version in AVCC header"

ErrReserved == "Invalid reserved bits in AVCC NALU length size byte"

ErrSizeField(label) ==
    IF label = "SPS" THEN "Not enough data for SPS size field"
    ELSE "Not enough data for PPS size field"

ErrPayload(label) ==
    IF label = "SPS" THEN "Not enough data for SPS payload"
    ELSE "Not enough data for PPS payload"

NoHeader ==
    [version |-> 0, avc_profile |-> 0, avc_compatability |-> 0, avc_level |-> 0,
     nalu_length_size_minus_one |-> 0, sps |-> <<>>, pps |-> <<>>]

HeaderOk(h) == [tag |-> "Ok", header |-> h, err |-> ""]

HeaderErr(msg) == [tag |-> "Err", header |-> NoHeader, err |-> msg]

HeaderPanic == [tag |-> "Panic", header |-> NoHeader, err |-> ""]

\* parse_nalus with the size field read least significant byte first
RECURSIVE parse_nalus_little_endian(_, _, _, _, _)
parse_nalus_little_endian(d, left, offset, label, nalus) ==
    IF left = 0 THEN [err |-> "", nalus |-> nalus, offset |-> offset]
    ELSE IF offset + 2 > Len(d)
    THEN [err |-> ErrSizeField(label), nalus |-> <<>>, offset |-> offset]
    ELSE LET size == d[offset + 1] + d[offset + 2] * 256
             at == offset + 2
         IN IF at + size > Len(d)
            THEN [err |-> ErrPayload(label), nalus |-> <<>>, offset |-> at]
            ELSE parse_nalus_little_endian(d, left - 1, at + size, label,
                                           Append(nalus, Slice(d, at, at + size)))

\* parse_nalus, with left entries still to read: [err, nalus, offset]; err is "" on
\* success.
RECURSIVE parse_nalus(_, _, _, _, _)
parse_nalus(d, left, offset, label, nalus) ==
    IF left = 0 THEN [err |-> "", nalus |-> nalus, offset |-> offset]
    ELSE IF offset + 2 > Len(d)
    THEN [err |-> ErrSizeField(label), nalus |-> <<>>, offset |-> offset]
    ELSE LET size == d[offset + 1] * 256 + d[offset + 2]
             at == offset + 2
         IN IF at + size > Len(d)
            THEN [err |-> ErrPayload(label), nalus |-> <<>>, offset |-> at]
            ELSE parse_nalus(d, left - 1, at + size, label,
                             Append(nalus, Slice(d, at, at + size)))

\* The reserved-bits test with the mask of the length size: byte & 0b11 == 0b11
ReservedBitsSetLowMask(nalu_header_byte) == nalu_header_byte % 4 = 3

\* nalu_header_byte & 0b11111100 == 0b11111100 (line 33)
ReservedBitsSet(nalu_header_byte) ==
    nalu_header_byte - (nalu_header_byte % 4) = 252

\* AVCHeader::new
AVCHeader_new(d) ==
    IF Len(d) < 7 THEN HeaderErr(ErrMinSize)
    ELSE LET version == d[1]
             nalu_header_byte == d[5]
             sps_count == d[6] % 32
         IN IF version # 1 THEN HeaderErr(ErrVersion)
            ELSE IF ~ReservedBitsSet(nalu_header_byte)
            THEN HeaderErr(ErrReserved)
            ELSE IF Len(d) < 7 + sps_count THEN HeaderErr(ErrMinSize)
            ELSE LET sps == parse_nalus(d, sps_count, 6, "SPS", <<>>)
                 IN IF sps.err # "" THEN HeaderErr(sps.err)
                    ELSE IF sps.offset >= Len(d) THEN HeaderPanic   \* data[offset]
                    ELSE LET pps_count == d[sps.offset + 1] % 32
                         IN IF Len(d) < sps.offset + 1 + pps_count
                            THEN HeaderErr(ErrMinSize)
                            ELSE LET pps == parse_nalus(d, pps_count, sps.offset + 1,
                                                        "PPS", <<>>)
                                 IN IF pps.err # "" THEN HeaderErr(pps.err)
                                    ELSE HeaderOk(
                                      [version |-> version,
                                       avc_profile |-> d[2],
                                       avc_compatability |-> d[3],
                                       avc_level |-> d[4],
                                       nalu_length_size_minus_one |-> nalu_header_byte % 4,
                                       sps |-> sps.nalus,
                                       pps |-> pps.nalus])

----------------------------------------------------------------------------
(* The extractors as one-call state machines: the input is drawn in the initial
   state, one action makes the call *)

\* Bounds of the inputs
MaxData == 5

AvccVals == {0, 1, 2}

LengthSizes == 0..5

MaxUnits == 2

MaxUnitLen == 2

UnitVals == {170, 1}

MaxHdrRest == 8

HdrVals == {0, 1, 226}

\* The first five bytes of a configuration record: a valid one (length size 4), a
\* valid one (length size 2), a wrong version, no reserved bit set, one reserved bit
\* not set.
HdrHeads == { <<1, 66, 0, 30, 255>>, <<1, 66, 0, 30, 253>>,
              <<2, 66, 0, 30, 255>>, <<1, 66, 0, 30, 3>>, <<1, 66, 0, 30, 251>> }

\* Lists of at most n elements of the set S
RECURSIVE Lists(_, _)
Lists(S, n) ==
    IF n = 0 THEN {<<>>}
    ELSE Lists(S, n - 1) \cup {Append(l, x) : l \in {m \in Lists(S, n - 1) : Len(m) = n - 1}, x \in S}

CursorIdle ==
    /\ byte_buf = <<>>
    /\ byte_index = 0
    /\ bit_offset = 7
    /\ call = [op |-> "from_bytes", n |-> 0, at |-> 0]
    /\ ret = Ok(U32Zero)

AvccInit ==
    /\ CursorIdle
    /\ out = NoOut
    /\ \/ /\ pc = "ready"
          /\ nalu_length_size \in LengthSizes
          /\ input \in Strings(AvccVals, MaxData)
          /\ units = <<>>
       \/ /\ pc = "units"
          /\ input = <<>>
          /\ nalu_length_size \in 1..4
          /\ units \in Lists(Strings(UnitVals, MaxUnitLen), MaxUnits)

\* build_avcc_stream(nalu_length_size, units)
BuildStream ==
    /\ pc = "units"
    /\ input' = build_avcc_stream(nalu_length_size, units)
    /\ pc' = "built"
    /\ UNCHANGED <<nalu_length_size, units, out>>
    /\ UNCHANGED cursorVars

\* read_avcc_stream(data, nalu_length_size)
ReadStream ==
    /\ pc \in {"ready", "built"}
    /\ out' = read_avcc_stream(input, nalu_length_size)
    /\ pc' = IF pc = "built" THEN "roundtrip" ELSE "split"
    /\ UNCHANGED <<input, nalu_length_size, units>>
    /\ UNCHANGED cursorVars

AvccNext ==
    \/ BuildStream
    \/ ReadStream

SpecAvcc == AvccInit /\ [][AvccNext]_vars

HeaderInit ==
    /\ CursorIdle
    /\ out = NoOut
    /\ pc = "header"
    /\ \E h \in HdrHeads :
          \/ \E l \in 0..4 : input = SubSeq(h, 1, l)
          \/ \E l \in 0..MaxHdrRest : \E r \in [1..l -> HdrVals] : input = h \o r
    /\ nalu_length_size = 0
    /\ units = <<>>

\* AVCHeader::new(data)
ParseHeader ==
    /\ pc \in {"header", "laid"}
    /\ out' = AVCHeader_new(input)
    /\ pc' = IF pc = "laid" THEN "reparsed" ELSE "parsed"
    /\ UNCHANGED <<input, nalu_length_size, units>>
    /\ UNCHANGED cursorVars

HeaderNext == ParseHeader

SpecHeader == HeaderInit /\ [][HeaderNext]_vars

\* c | 0b11100000 in u8
OrE0(c) == 224 + (c % 32)

\* The tests' push of {u16 big-endian length, bytes} for each entry of list
RECURSIVE PushEntries(_, _)
PushEntries(header, list) ==
    IF list = <<>> THEN header
    ELSE PushEntries(header \o <<Len(list[1]) \div 256, Len(list[1]) % 256>> \o list[1],
                     Tail(list))

\* The tests' build_avcc_header
build_avcc_header(version, nalu_len_size_minus_one, sps_list, pps_list) ==
    LET length_byte == IF nalu_len_size_minus_one <= 3
                       THEN 252 + nalu_len_size_minus_one
                       ELSE nalu_len_size_minus_one
        head == <<version, 66, 0, 30, length_byte, OrE0(Len(sps_list))>>
    IN PushEntries(Append(PushEntries(head, sps_list), OrE0(Len(pps_list))), pps_list)

\* Bounds of the parameter sets laid out in a record
MaxSps == 2

MaxSpsLen == 2

SpsVals == {170, 187}

MaxPps == 1

MaxPpsLen == 1

PpsVals == {204}

\* A record to lay out: units holds the SPS list and the PPS list, nalu_length_size
\* the length size minus one.
RecordInit ==
    /\ CursorIdle
    /\ out = NoOut
    /\ pc = "record"
    /\ input = <<>>
    /\ nalu_length_size \in 0..3
    /\ units \in {<<sps, pps>> : sps \in Lists(Strings(SpsVals, MaxSpsLen), MaxSps),
                                  pps \in Lists(Strings(PpsVals, MaxPpsLen), MaxPps)}

\* build_avcc_header(1, nalu_length_size, sps_list, pps_list)
BuildHeader ==
    /\ pc = "record"
    /\ input' = build_avcc_header(1, nalu_length_size, units[1], units[2])
    /\ pc' = "laid"
    /\ UNCHANGED <<nalu_length_size, units, out>>
    /\ UNCHANGED cursorVars

RecordNext ==
    \/ BuildHeader
    \/ ParseHeader

SpecRecord == RecordInit /\ [][RecordNext]_vars

----------------------------------------------------------------------------
(* nalu.rs: NaluHeader *)

ErrForbidden == "Forbidden bit in NALU Header cannot be 1"

NoNaluHeader == [forbidden_zero_bit |-> 0, nal_ref_idc |-> 0, nal_unit_type |-> 0]

NaluOk(h) == [tag |-> "Ok", header |-> h, err |-> ""]

NaluErr(msg) == [tag |-> "Err", header |-> NoNaluHeader, err |-> msg]

\* NaluHeader::new with nal_ref_idc taken one bit too low: (byte >> 4) & 0x03
NaluHeader_new_shift4(byte) ==
    LET forbidden_zero_bit == (byte \div 128) % 2
        nal_ref_idc == (byte \div 16) % 4
        nal_unit_type == byte % 32
    IN IF forbidden_zero_bit = 1 THEN NaluErr(ErrForbidden)
       ELSE NaluOk([forbidden_zero_bit |-> forbidden_zero_bit,
                    nal_ref_idc |-> nal_ref_idc,
                    nal_unit_type |-> nal_unit_type])

\* NaluHeader::new
NaluHeader_new(byte) ==
    LET forbidden_zero_bit == (byte \div 128) % 2
        nal_ref_idc == (byte \div 32) % 4
        nal_unit_type == byte % 32
    IN IF forbidden_zero_bit = 1 THEN NaluErr(ErrForbidden)
       ELSE NaluOk([forbidden_zero_bit |-> forbidden_zero_bit,
                    nal_ref_idc |-> nal_ref_idc,
                    nal_unit_type |-> nal_unit_type])

\* Every value of a u8
Bytes == 0..255

NaluInit ==
    /\ CursorIdle
    /\ out = NoOut
    /\ pc = "byte"
    /\ input \in {<<b>> : b \in Bytes}
    /\ nalu_length_size = 0
    /\ units = <<>>

\* NaluHeader::new(byte)
DecodeNaluHeader ==
    /\ pc = "byte"
    /\ out' = NaluHeader_new(input[1])
    /\ pc' = "decoded"
    /\ UNCHANGED <<input, nalu_length_size, units>>
    /\ UNCHANGED cursorVars

NaluNext == DecodeNaluHeader

SpecNalu == NaluInit /\ [][NaluNext]_vars

----------------------------------------------------------------------------
(* annexb.rs: split_annexb_nalus *)

\* Option<usize>
None == [some |-> FALSE, start |-> 0]

Some(start) == [some |-> TRUE, start |-> start]

\* &data[a..b]: where the view lies in data, and its bytes
View(d, a, b) == [start |-> a, end |-> b, bytes |-> Slice(d, a, b)]

\* start_code_len with the 3-byte pattern only
StartCodeLenThreeOnly(d, i) ==
    IF Slice(d, i, i + 3) = <<0, 0, 1>> THEN 3
    ELSE 0

\* start_code_len (lines 8-15); 0 when no start code begins at i
StartCodeLen(d, i) ==
    IF i + 4 <= Len(d) /\ Slice(d, i, i + 4) = <<0, 0, 0, 1>> THEN 4
    ELSE IF Slice(d, i, i + 3) = <<0, 0, 1>> THEN 3
    ELSE 0

\* The test of lines 18 and 29 with <= for <
SpanNonEmptyOrEqual(start, end) == start <= end

\* The test of lines 18 and 29: the span start..end holds a byte
SpanNonEmpty(start, end) == start < end

\* Lines 17-21 and 28-32: push &data[start..end] if a start code was seen and the
\* span is not empty
PushSpan(d, nalu_start, end, nalus) ==
    IF nalu_start.some /\ SpanNonEmpty(nalu_start.start, end)
    THEN Append(nalus, View(d, nalu_start.start, end))
    ELSE nalus

\* The while loop (lines 7-25), then the final push (lines 28-32)
RECURSIVE SplitLoop(_, _, _, _)
SplitStep(d, i, start_code_len, nalu_start, nalus) ==
    IF start_code_len = 0 THEN SplitLoop(d, i + 1, nalu_start, nalus)
    ELSE SplitLoop(d, i + start_code_len, Some(i + start_code_len),
                   PushSpan(d, nalu_start, i, nalus))

SplitLoop(d, i, nalu_start, nalus) ==
    IF i + 3 <= Len(d) THEN SplitStep(d, i, StartCodeLen(d, i), nalu_start, nalus)
    ELSE PushSpan(d, nalu_start, Len(d), nalus)

\* split_annexb_nalus
split_annexb_nalus(d) == SplitLoop(d, 0, None, <<>>)

\* Bounds of the Annex-B buffers
MaxAnnexB == 8

AnnexBVals == {0, 1, 103}

AnnexBInit ==
    /\ CursorIdle
    /\ out = NoOut
    /\ pc = "annexb"
    /\ input \in Strings(AnnexBVals, MaxAnnexB)
    /\ nalu_length_size = 0
    /\ units = <<>>

\* split_annexb_nalus(data)
SplitAnnexB ==
    /\ pc = "annexb"
    /\ out' = [tag |-> "Ok", views |-> split_annexb_nalus(input)]
    /\ pc' = "views"
    /\ UNCHANGED <<input, nalu_length_size, units>>
    /\ UNCHANGED cursorVars

AnnexBNext == SplitAnnexB

SpecAnnexB == AnnexBInit /\ [][AnnexBNext]_vars

----------------------------------------------------------------------------
(* What the claims compare the code with: a bit-by-bit reading of the buffer *)

\* Bit q of the buffer, bit 0 being the most significant bit of byte 0
BitAt(buf, q) == (buf[(q \div 8) + 1] \div Pow2(7 - (q % 8))) % 2

BitLen(buf) == 8 * Len(buf)

\* 2 * w + bit on <<hi, lo>> pairs, not reduced modulo 2^32
TwicePlus(w, bit) ==
    LET lo == 2 * w[2] + bit
    IN <<2 * w[1] + (lo \div 65536), lo % 65536>>

\* The number whose binary digits are bits p .. p+n-1, most significant first
RECURSIVE NaiveFrom(_, _, _, _)
NaiveFrom(buf, q, left, acc) ==
    IF left = 0 THEN acc
    ELSE NaiveFrom(buf, q + 1, left - 1, TwicePlus(acc, BitAt(buf, q)))

NaiveBits(buf, p, n) == NaiveFrom(buf, p, n, U32Zero)

\* The number of consecutive 0 bits of the buffer from bit p on
RECURSIVE ZeroRun(_, _)
ZeroRun(buf, p) ==
    IF p >= BitLen(buf) \/ BitAt(buf, p) = 1 THEN 0 ELSE 1 + ZeroRun(buf, p + 1)

\* A complete codeword lies at bit p: k <= 31 zero bits, a 1 bit, k suffix bits
CodewordAt(buf, p) ==
    LET k == ZeroRun(buf, p)
    IN k <= 31 /\ p + 2 * k + 1 <= BitLen(buf)

\* 2^k - 1 + suffix for the codeword at bit p, not reduced modulo 2^32
CodeNum(buf, p) ==
    LET k == ZeroRun(buf, p)
        suffix == NaiveBits(buf, p + k + 1, k)
        ones == IF k <= 16 THEN <<0, Pow2(k) - 1>> ELSE <<Pow2(k - 16) - 1, 65535>>
        lo == ones[2] + suffix[2]
    IN <<ones[1] + suffix[1] + (lo \div 65536), lo % 65536>>

\* The signed value of code_num w: -(w/2) when w is even, (w+1)/2 when it is odd
SignedOf(w) ==
    IF w[2] % 2 = 0 THEN -(w[1] * 32768 + (w[2] \div 2))
    ELSE w[1] * 32768 + ((w[2] + 1) \div 2)

OutOfBounds(r) == r.tag = "Err" /\ r.err \in {ErrNoSpace, ErrAdvance, ErrRewind}

CodeOverflow(r) == r.tag = "Err" /\ r.err = ErrGolomb

----------------------------------------------------------------------------
(* Claims about the bit cursor *)

\* C1: read(n) with 0 <= n <= 32 and n greater than the number of bits that remain
\* (8 * buffer.length - position) returns an OutOfBounds error and never panics.
C1_ReadPastEndIsOutOfBounds ==
    (call.op = "read" /\ call.n <= U32Bits /\ call.n > BitLen(byte_buf) - call.at)
        => OutOfBounds(ret)

\* C6: read(n) with position + n <= 8 * buffer.length returns the number whose binary
\* digits are bits position .. position+n-1, most significant first, and advances
\* position() by exactly n.
C6_ReadIsMsbFirst ==
    (call.op = "read" /\ call.n <= U32Bits /\ call.at + call.n <= BitLen(byte_buf))
        => /\ ret = Ok(NaiveBits(byte_buf, call.at, call.n))
           /\ position(Self) = call.at + call.n

\* C6 happens: an unaligned read of 20 bits (4 bits one at a time, then two whole
\* bytes on the byte-aligned path) and an unaligned read of all 32 bits succeed.
C6_Witness ==
    /\ call.op = "read" /\ ret.tag = "Ok" /\ ret.val # U32Zero
    /\ \/ call.n = 20 /\ call.at = 4
       \/ call.n = 32 /\ call.at = 3

\* C10: peek(n) leaves position() unchanged whether it succeeds or fails, and a read(n)
\* issued right after a successful peek(n) returns the value peek(n) returned.
C10_PeekThenRead ==
    [][ /\ call'.op = "peek"
            => byte_index' * 8 + (7 - bit_offset') = position(Self)
        /\ (call.op = "peek" /\ ret.tag = "Ok" /\ call'.op = "read" /\ call'.n = call.n)
            => ret' = ret ]_vars

\* C10 happens: a peek in the middle of a byte has succeeded, and another has failed.
C10_Witness ==
    /\ call.op = "peek" /\ call.at = 13 /\ position(Self) = 13
    /\ \/ call.n = 17 /\ ret.tag = "Ok" /\ ret.val # U32Zero
       \/ ret.tag = "Err"

----------------------------------------------------------------------------
(* Claims about Exp-Golomb decoding, checked under SpecGolomb *)

\* C7: where a complete codeword of k leading zero bits (0 <= k <= 31), a 1 bit and k
\* suffix bits lies at the cursor, read_ue returns 2^k - 1 + suffix and advances
\* position() by exactly 2k + 1 bits.
C7_ReadUeDecodes ==
    (call.op = "read_ue" /\ CodewordAt(byte_buf, call.at))
        => /\ ret = Ok(CodeNum(byte_buf, call.at))
           /\ position(Self) = call.at + 2 * ZeroRun(byte_buf, call.at) + 1

\* C7 happens: a codeword of 13 leading zeros that starts in the middle of a byte.
C7_Witness ==
    /\ call.op = "read_ue" /\ ret.tag = "Ok"
    /\ call.at % 8 = 3 /\ ZeroRun(byte_buf, call.at) = 13
    /\ position(Self) = call.at + 27

\* C8: read_ue fails with the overflow error exactly when the run of leading zero bits
\* at the cursor exceeds 31; a codeword with exactly 31 leading zeros is accepted and
\* its value 2^31 - 1 + suffix is returned without wrapping modulo 2^32.
C8_OverflowIffMoreThan31Zeros ==
    call.op = "read_ue"
        => /\ CodeOverflow(ret) <=> ZeroRun(byte_buf, call.at) > 31
           /\ (ZeroRun(byte_buf, call.at) = 31 /\ CodewordAt(byte_buf, call.at))
                => LET suffix == NaiveBits(byte_buf, call.at + 32, 31)
                   IN /\ ret.tag = "Ok"
                      /\ ret.val[1] = 32767 + suffix[1] + ((65535 + suffix[2]) \div 65536)
                      /\ ret.val[2] = (65535 + suffix[2]) % 65536
                      /\ ret.val[1] >= 32767

\* C8 happens: the largest value 2^32 - 2 has been returned, and a run of 32 zeros
\* has been refused.
C8_Witness ==
    /\ call.op = "read_ue"
    /\ \/ ret = Ok(<<65535, 65534>>)
       \/ CodeOverflow(ret) /\ ZeroRun(byte_buf, call.at) = 32

\* C9: for every codeword that read_ue decodes to code_num, read_se on the same input
\* returns -(code_num/2) when code_num is even and (code_num+1)/2 when it is odd, within
\* the signed 32-bit range, and consumes the same bits as read_ue.
C9_ReadSeMapsCodeNum ==
    (call.op = "read_se" /\ CodewordAt(byte_buf, call.at))
        => LET u == read_ue(BitReader(byte_buf, call.at \div 8, 7 - (call.at % 8)), TRUE)
           IN /\ u.ret = Ok(CodeNum(byte_buf, call.at))
              /\ ret = OkSigned(SignedOf(u.ret.val))
              /\ ret.sval >= -2147483647 - 1 /\ ret.sval <= 2147483647
              /\ position(Self) = position(u.self)

\* C9 happens: read_se has returned -(2^31 - 1) for code_num 2^32 - 2, and a positive
\* value above 2^30 for an odd code_num.
C9_Witness ==
    /\ call.op = "read_se" /\ ret.tag = "Ok"
    /\ ZeroRun(byte_buf, call.at) = 31
    /\ \/ ret.sval = -2147483647
       \/ ret.sval > 1073741824

----------------------------------------------------------------------------
(* Claims about the length-prefixed extractor, checked under SpecAvcc *)

\* The big-endian number held by the size bytes of d from index i on
RECURSIVE BigEndian(_, _, _)
BigEndian(d, i, size) ==
    IF size = 0 THEN 0
    ELSE BigEndian(d, i, size - 1) * 256 + d[i + size]

\* d from index i on is a concatenation of complete records that ends exactly at the
\* end of d: a size-byte big-endian length, then that many bytes
RECURSIVE CompleteRecords(_, _, _)
CompleteRecords(d, i, size) ==
    \/ i = Len(d)
    \/ /\ i + size <= Len(d)
       /\ i + size + BigEndian(d, i, size) <= Len(d)
       /\ CompleteRecords(d, i + size + BigEndian(d, i, size), size)

\* C2: for every length_size in 1..4 and every list of NAL units, the buffer made of
\* each unit's length as a length_size-byte big-endian integer followed by the unit's
\* bytes is split by read_length_prefixed into exactly those units, in order.
C2_LengthPrefixedRoundTrip ==
    pc = "roundtrip" => out = StreamOk(units)

\* C3: for every supported length_size, read_length_prefixed succeeds if and only if
\* the buffer is a concatenation of complete records ending exactly at its end, and
\* otherwise returns a Truncated error and never panics.
C3_SplitIffCompleteRecords ==
    (pc = "split" /\ nalu_length_size \in 1..4)
        => IF CompleteRecords(input, 0, nalu_length_size)
           THEN out.tag = "Ok"
           ELSE out = StreamErr(ErrNaluExceeds)

\* C4: read_length_prefixed fails with InvalidParameter when length_size is outside
\* 1..4 (in particular for 0 and for 5), does not fail with InvalidParameter when
\* length_size is 1, 2, 3 or 4, and never panics on an unsupported length_size.
C4_InvalidParameterIffUnsupported ==
    pc = "split"
        => (out = StreamErr(ErrLengthSize) <=> nalu_length_size \notin 1..4)

----------------------------------------------------------------------------
(* Claims about the configuration record, checked under SpecHeader *)

\* The offset after left records {u16 big-endian length, bytes} of d from offset on,
\* or -1 when one of them does not fit in d
RECURSIVE SkipRecords(_, _, _)
SkipRecords(d, offset, left) ==
    IF left = 0 THEN offset
    ELSE IF offset + 2 > Len(d) \/ offset + 2 + BigEndian(d, offset, 2) > Len(d) THEN -1
    ELSE SkipRecords(d, offset + 2 + BigEndian(d, offset, 2), left - 1)

\* The SPS count, the SPS records, the PPS count and the PPS records all lie in d
RecordFits(d) ==
    LET sps_end == SkipRecords(d, 6, d[6] % 32)
    IN /\ sps_end # -1
       /\ sps_end < Len(d)
       /\ SkipRecords(d, sps_end + 1, d[sps_end + 1] % 32) # -1

HeaderTruncated(r) ==
    /\ r.tag = "Err"
    /\ r.err \in {ErrMinSize, ErrSizeField("SPS"), ErrPayload("SPS"),
                  ErrSizeField("PPS"), ErrPayload("PPS")}

ValidPrefix(d) == Len(d) >= 7 /\ d[1] = 1 /\ d[5] - (d[5] % 4) = 252

\* C5: for every buffer of at least 7 bytes with version 1 and all reserved bits set,
\* if a count byte, a length field or a payload does not fit, parse_configuration_record
\* returns a Truncated error; it never panics.
C5_ShortRecordIsTruncated ==
    (pc = "parsed" /\ ValidPrefix(input))
        => /\ out.tag # "Panic"
           /\ ~RecordFits(input) => HeaderTruncated(out)

InvalidFormat(r) == r.tag = "Err" /\ r.err \in {ErrVersion, ErrReserved}

\* C16: a buffer of at least 7 bytes whose byte 0 is not 1, or whose byte 4 has any of
\* bits 2-7 at 0, makes parse_configuration_record fail with InvalidFormat and yield
\* no record, whatever the other bytes are; a buffer shorter than 7 bytes always fails.
C16_BadVersionOrReservedIsInvalidFormat ==
    pc = "parsed"
        => /\ Len(input) < 7 => (out.tag = "Err" /\ out.header = NoHeader)
           /\ (Len(input) >= 7
                 /\ (input[1] # 1 \/ \E k \in 2..7 : (input[5] \div Pow2(k)) % 2 = 0))
                => (InvalidFormat(out) /\ out.header = NoHeader)

\* C16 happens: a record of 7 bytes or more with only bit 2 of byte 4 not set has been
\* refused for its reserved bits, and one with version 2 for its version.
C16_Witness ==
    /\ pc = "parsed" /\ Len(input) >= 7 /\ out.tag = "Err"
    /\ \/ input[5] = 251 /\ out.err = ErrReserved
       \/ input[1] = 2 /\ out.err = ErrVersion

\* C19: for a buffer of at least 7 bytes with version 1 and the reserved bits set,
\* when parse_configuration_record fails for missing bytes the error names the short
\* field: SPS when an SPS length field or payload is missing, PPS when a PPS length
\* field or payload is missing, never the generic size error.
C19_ShortFieldIsNamed ==
    (pc = "parsed" /\ ValidPrefix(input) /\ out.tag = "Err")
        => IF SkipRecords(input, 6, input[6] % 32) = -1
           THEN out.err \in {ErrSizeField("SPS"), ErrPayload("SPS")}
           ELSE out.err \in {ErrSizeField("PPS"), ErrPayload("PPS")}

----------------------------------------------------------------------------
(* Claims about laying out and parsing a configuration record, checked under
   SpecRecord *)

\* C17: a record laid out as version 1, profile, compatibility, level, a length byte
\* with the six reserved bits set and length-size-minus-one m in 0..3, an SPS count
\* with its {u16 big-endian length, bytes} entries, a PPS count with its entries,
\* parses successfully to m, the same number of SPS and PPS entries and the same byte
\* sequences in the same order.
C17_RecordRoundTrip ==
    pc = "reparsed"
        => /\ out.tag = "Ok"
           /\ out.header.version = 1
           /\ out.header.nalu_length_size_minus_one = nalu_length_size
           /\ Len(out.header.sps) = Len(units[1]) /\ out.header.sps = units[1]
           /\ Len(out.header.pps) = Len(units[2]) /\ out.header.pps = units[2]

\* C17 happens: two different SPS, of two bytes and of one byte, and one PPS
\* have come back from the record.
C17_Witness ==
    /\ pc = "reparsed" /\ nalu_length_size = 1
    /\ units = << << <<170, 187>>, <<187>> >>, << <<204>> >> >>
    /\ out.tag = "Ok" /\ out.header.sps[1] = <<170, 187>> /\ out.header.pps[1] = <<204>>

----------------------------------------------------------------------------
(* Claims about the NAL header, checked under SpecNalu *)

\* C13: for every byte b in 0..255 the NAL header decoder fails exactly when bit 7
\* of b is 1; otherwise forbidden_zero_bit = 0, nal_ref_idc is in 0..3, nal_unit_type
\* is in 0..31 and 32 * nal_ref_idc + nal_unit_type = b.
C13_NaluHeaderFields ==
    pc = "decoded"
        => /\ out.tag = "Err" <=> input[1] >= 128
           /\ out.tag \in {"Ok", "Err"}
           /\ out.tag = "Ok"
                => /\ out.header.forbidden_zero_bit = 0
                   /\ out.header.nal_ref_idc \in 0..3
                   /\ out.header.nal_unit_type \in 0..31
                   /\ 32 * out.header.nal_ref_idc + out.header.nal_unit_type = input[1]

\* C13 happens: byte 0x65 has been decoded to ref_idc 3, unit_type 5.
C13_Witness ==
    /\ pc = "decoded" /\ input = <<101>>
    /\ out.tag = "Ok" /\ out.header.nal_ref_idc = 3 /\ out.header.nal_unit_type = 5

----------------------------------------------------------------------------
(* Claims about the Annex-B split, checked under SpecAnnexB *)

IsCode4(d, i) ==
    i + 4 <= Len(d) /\ d[i + 1] = 0 /\ d[i + 2] = 0 /\ d[i + 3] = 0 /\ d[i + 4] = 1

IsCode3(d, i) == i + 3 <= Len(d) /\ d[i + 1] = 0 /\ d[i + 2] = 0 /\ d[i + 3] = 1

\* The offsets from..Len(d) where a start code of either length begins
CodeStarts(d, from) == {i \in from..Len(d) : IsCode4(d, i) \/ IsCode3(d, i)}

Least(S) == CHOOSE x \in S : \A y \in S : x <= y

\* The start codes a left-to-right scan finds from offset from on: the first place
\* one begins, the longer one if both begin there, then on from its end
RECURSIVE ScanCodes(_, _)
ScanCodes(d, from) ==
    IF CodeStarts(d, from) = {} THEN <<>>
    ELSE LET at == Least(CodeStarts(d, from))
             end == IF IsCode4(d, at) THEN at + 4 ELSE at + 3
         IN <<[at |-> at, end |-> end]>> \o ScanCodes(d, end)

\* The span after each start code: up to the next start code, or to the end of d
SpansOf(d, codes) ==
    [k \in 1..Len(codes) |->
        View(d, codes[k].end, IF k < Len(codes) THEN codes[k + 1].at ELSE Len(d))]

HasByte(v) == v.start < v.end

\* C14: Annex-B split returns, in buffer order, exactly the spans from the end of one
\* start code to the start of the next one found by a left-to-right scan (the 4-byte
\* code preferred where both match), then the span from the end of the last start
\* code to the end of the buffer, the spans that hold no byte left out; bytes before
\* the first start code are in no view, and no start code gives no view.
C14_SplitIsSpansBetweenStartCodes ==
    pc = "views"
        => out.views = SelectSeq(SpansOf(input, ScanCodes(input, 0)), HasByte)

\* C14 happens: a junk byte, a 4-byte start code, and one view that runs to the end
\* of the buffer, its trailing 00 00 included.
C14_Witness ==
    /\ pc = "views"
    /\ input = <<103, 0, 0, 0, 1, 103, 0, 0>>
    /\ out.views = <<View(input, 5, 8)>>

\* C15: no view returned by Annex-B split is empty, and there are never more views
\* than start codes found.
C15_NoEmptyView ==
    pc = "views"
        => /\ \A k \in 1..Len(out.views) :
                 out.views[k].start < out.views[k].end /\ Len(out.views[k].bytes) > 0
           /\ Len(out.views) <= Len(ScanCodes(input, 0))

\* C15 happens: two start codes back to back and a buffer that ends with a start
\* code, with fewer views than start codes.
C15_Witness ==
    /\ pc = "views"
    /\ input \in {<<0, 0, 1, 0, 0, 0, 1, 103>>, <<0, 0, 1, 103, 0, 0, 1>>}
    /\ Len(out.views) = 1

----------------------------------------------------------------------------
(* Claims about moving the cursor back *)

\* C11: after a read(n) within bounds, rewind(n) restores position() to its value
\* before the read, and the read(n) that follows returns what the first read(n)
\* returned.
C11_ReadRewindRoundTrip ==
    /\ pc = "rewound" => (ret.tag = "Ok" /\ position(Self) = out.at)
    /\ pc = "reread" => (ret = out.ret /\ position(Self) = out.at + out.n)

\* C11 happens: 17 bits read from the middle of a byte, rewound, and read again.
C11_Witness ==
    /\ pc = "reread" /\ out.at = 5 /\ out.n = 17
    /\ ret.tag = "Ok" /\ ret.val # U32Zero

\* C12: rewind(n) succeeds exactly when n <= position(); on success position()
\* decreases by n; otherwise it returns an OutOfBounds error and position() is as
\* it was.
C12_RewindIffConsumed ==
    call.op = "rewind"
        => IF call.n <= call.at
           THEN ret.tag = "Ok" /\ position(Self) = call.at - call.n
           ELSE OutOfBounds(ret) /\ position(Self) = call.at

\* C12 happens: a rewind of all the bits consumed so far (to position 0), and a
\* rewind of one bit more than that.
C12_Witness ==
    /\ call.op = "rewind" /\ call.at = 11
    /\ \/ call.n = 11 /\ ret.tag = "Ok"
       \/ call.n = 12 /\ ret.tag = "Err"

\* C18: after any sequence of read, peek, rewind, read_ue and read_se calls on a
\* fresh cursor, 0 <= position() <= 8 * buffer.length, the bit offset is in 0..7
\* and the byte index is in 0..buffer.length.
C18_PositionWithinBuffer ==
    /\ bit_offset \in 0..7
    /\ byte_index \in 0..Len(byte_buf)
    /\ position(Self) \in 0..BitLen(byte_buf)

\* C18 happens: the cursor stands at the very end of a buffer and a call there has
\* returned an error.
C18_Witness ==
    /\ Len(byte_buf) > 1 /\ position(Self) = BitLen(byte_buf)
    /\ call.op \in {"read_ue", "read_se"} /\ ret.tag = "Err"

====
